---------------------------- MODULE Spec2Model ----------------------------
(***************************************************************************)
(* ChillMCP break tools (src/core/tools.py): the common lifecycle of a     *)
(* break tool, execute_break_tool, and the hidden combo detector,          *)
(* check_hidden_combo, over the shared ServerState.                        *)
(*                                                                         *)
(* An invocation is a coroutine.  Code between two awaits runs without     *)
(* interruption; at every await (asyncio.sleep, decrease_stress,           *)
(* maybe_increase_boss_alert) the event loop may run other invocations.    *)
(* One action of the model is one such uninterrupted block: the effect of  *)
(* the awaited call followed by the code up to the next await.             *)
(***************************************************************************)
EXTENDS Integers, Sequences, FiniteSets, TLC

\* ------------------------------------------------------------- bounds
\* Invocation slots (coroutines that may be in flight at once).
NumProcs == 2
\* Invocations of a freely chosen tool at the start of a behaviour.
MaxFree == 3
\* Invocations started in one behaviour.
MaxCalls == 14
\* Upper bound the alert primitive enforces on boss_alert_level.
MaxAlert == 5

\* ---------------------------------------------------------- constants
\* execute_break_tool line 111: boss_alert_level >= 5 delays the call.
DelayThreshold == 5
\* execute_break_tool line 123: len(recent_actions) > 10 evicts.
HistoryCap == 10
\* check_hidden_combo line 70: combo >= 7.
CoffeeCombo == 7
\* check_hidden_combo line 82: combo >= 5.
MemeCombo == 5
\* check_hidden_combo line 71: decrease_stress(10).
CoffeePenalty == 10
\* check_hidden_combo line 78: decrease_stress(50).
MasterRelief == 50
\* check_hidden_combo line 89: decrease_stress(100).
AwakeningRelief == 100
\* Range of stress_level kept by decrease_stress.
StressMax == 100

Procs == 1..NumProcs

\* The eight break tools registered with @mcp.tool() that run
\* execute_break_tool (show_help does not).
BreakTools ==
    {"take_a_break", "watch_netflix", "show_meme", "bathroom_break",
     "coffee_mission", "urgent_call", "deep_thinking", "email_organizing"}

\* stress_reduction argument each tool passes to execute_break_tool.
StressReduction(t) ==
    CASE t = "take_a_break"     -> <<5, 20>>
      [] t = "watch_netflix"    -> <<20, 40>>
      [] t = "show_meme"        -> <<10, 25>>
      [] t = "bathroom_break"   -> <<15, 30>>
      [] t = "coffee_mission"   -> <<10, 30>>
      [] t = "urgent_call"      -> <<15, 35>>
      [] t = "deep_thinking"    -> <<20, 45>>
      [] t = "email_organizing" -> <<10, 35>>

\* random.randint(stress_reduction[0], stress_reduction[1]): both ends are
\* included, and the draws explored are the two ends of the range.
RandInt(range) == {range[1], range[2]}

VARIABLES
    stress_level,       \* server_state.stress_level
    boss_alert_level,   \* server_state.boss_alert_level
    recent_actions,     \* server_state.recent_actions
    combo_count,        \* server_state.combo_count (a dict: tool -> count)
    pc,                 \* where each invocation is suspended
    tool_name,          \* the tool_name argument of each invocation
    hidden_event,       \* the bonus check_hidden_combo returns to each invocation
    response,           \* the stress and alert rendered in the returned string
    slept,              \* history: the invocation went through asyncio.sleep(20)
    n_decrease,         \* history: decrease_stress calls made by the invocation
    n_escalate,         \* history: maybe_increase_boss_alert calls made by it
    log,                \* history: every tool_name in the order of line 122
    sleepers,           \* the invocations in asyncio.sleep(20), earliest first
    returned_during_delay  \* history: it returned while another was in the delay

vars == <<stress_level, boss_alert_level, recent_actions, combo_count, pc,
          tool_name, hidden_event, response, slept,
          n_decrease, n_escalate, log, sleepers, returned_during_delay>>

NoTool == "-"
NoEvent == "none"
NoResponse == [stress |-> -1, boss |-> -1]

Max(a, b) == IF a > b THEN a ELSE b
Min(a, b) == IF a < b THEN a ELSE b

\* ------------------------------------------------- ServerState primitives
\* ServerState.decrease_stress(amount): stress_level lowered, kept in [0, 100].
DecreaseStress(s, amount) == Max(0, Min(StressMax, s - amount))

\* ServerState.maybe_increase_boss_alert(): the level may stay or go up by one,
\* never past the upper bound the primitive enforces.
MaybeIncreaseBossAlert(level) == {level, Min(MaxAlert, level + 1)}

\* ---------------------------------------------------- execute_break_tool
\* line 111
NeedsDelayStrict(level) == level > DelayThreshold
NeedsDelay(level) == level >= DelayThreshold

\* lines 122-124
AppendRecentNoEvict(actions, t) == Append(actions, t)
AppendRecentEvictNewest(actions, t) ==
    IF Len(actions) + 1 > HistoryCap THEN actions ELSE Append(actions, t)
AppendRecent(actions, t) ==
    LET appended == Append(actions, t)
    IN  IF Len(appended) > HistoryCap THEN Tail(appended) ELSE appended

\* lines 127-135
UpdateComboNoReset(cc, t) ==
    IF t \notin DOMAIN cc THEN (t :> 1) @@ cc ELSE [cc EXCEPT ![t] = @ + 1]
UpdateComboStuck(cc, t) ==
    (t :> 1) @@ [k \in DOMAIN cc |-> 0]
UpdateCombo(cc, t) ==
    LET counted == IF t \notin DOMAIN cc
                   THEN (t :> 1) @@ cc
                   ELSE [cc EXCEPT ![t] = @ + 1]
    IN  [k \in DOMAIN counted |-> IF k # t THEN 0 ELSE counted[k]]

\* ---------------------------------------------------- check_hidden_combo
\* line 66: combo_count.get(tool_name, 0)
ComboGet(cc, t) == IF t \in DOMAIN cc THEN cc[t] ELSE 0

\* line 67: recent_actions[-3:]
LastThree(actions) ==
    SubSeq(actions, Max(1, Len(actions) - 2), Len(actions))

\* lines 70 and 82: the tools with a repetition trigger.
StreakTools == {"coffee_mission", "show_meme"}

\* line 77
MasterRoutine == <<"bathroom_break", "email_organizing", "watch_netflix">>
\* line 88
AwakeningSwapped == <<"coffee_mission", "deep_thinking", "take_a_break">>
Awakening == <<"deep_thinking", "coffee_mission", "take_a_break">>

\* lines 70-93: the branch taken, first true condition first.
DetectNoOrder(t, combo, seq) ==
    CASE t = "coffee_mission" /\ combo >= CoffeeCombo -> "overconsumption"
      [] Len(seq) = 3 /\ {seq[i] : i \in 1..3} = {MasterRoutine[i] : i \in 1..3}
                                                       -> "master"
      [] t = "show_meme" /\ combo >= MemeCombo         -> "addiction"
      [] seq = Awakening                               -> "awakening"
      [] OTHER                                         -> NoEvent
DetectOffByOne(t, combo, seq) ==
    IF t = "coffee_mission" /\ combo > CoffeeCombo THEN "overconsumption"
    ELSE IF seq = MasterRoutine THEN "master"
    ELSE IF t = "show_meme" /\ combo > MemeCombo THEN "addiction"
    ELSE IF seq = Awakening THEN "awakening"
    ELSE NoEvent
Detect(t, combo, seq) ==
    IF t = "coffee_mission" /\ combo >= CoffeeCombo THEN "overconsumption"
    ELSE IF seq = MasterRoutine THEN "master"
    ELSE IF t = "show_meme" /\ combo >= MemeCombo THEN "addiction"
    ELSE IF seq = Awakening THEN "awakening"
    ELSE NoEvent

\* line 90: server_state.stress_level = 0
AwakenedStressDecrement(s) == s - AwakeningRelief
AwakenedStress(s) == 0

\* lines 73 and 84: server_state.combo_count[tool_name] = 0
ResetComboKept(cc, t) == cc
ResetCombo(cc, t) == (t :> 0) @@ cc

\* format_response, lines 49-51: the values rendered are read when it runs.
FormatResponse(s, level) == [stress |-> s, boss |-> level]

\* ------------------------------------------------------------ bookkeeping
\* Invocations started so far: those logged and those not yet at line 122.
Started == Len(log) + Cardinality({p \in Procs : pc[p] \in {"sleep", "reduce", "escalate"}})

TypeOK ==
    /\ stress_level \in Int
    /\ boss_alert_level \in 0..MaxAlert
    /\ recent_actions \in Seq(BreakTools)
    /\ DOMAIN combo_count \subseteq BreakTools
    /\ pc \in [Procs -> {"idle", "sleep", "reduce", "escalate", "coffee_decrease",
                         "coffee_escalate", "master_decrease", "meme_escalate",
                         "awakening_decrease", "done"}]
    /\ tool_name \in [Procs -> BreakTools \cup {NoTool}]

\* ------------------------------------------------------------------ Init
\* initialize_state(state), lines 37-44, on a fresh ServerState (full stress,
\* no alert): the combo fields start empty.
InitLocals ==
    /\ recent_actions = <<>>
    /\ combo_count = <<>>
    /\ pc = [p \in Procs |-> "idle"]
    /\ tool_name = [p \in Procs |-> NoTool]
    /\ hidden_event = [p \in Procs |-> NoEvent]
    /\ response = [p \in Procs |-> NoResponse]
    /\ slept = [p \in Procs |-> FALSE]
    /\ n_decrease = [p \in Procs |-> 0]
    /\ n_escalate = [p \in Procs |-> 0]
    /\ log = <<>>
    /\ sleepers = <<>>
    /\ returned_during_delay = [p \in Procs |-> FALSE]

Init ==
    /\ stress_level = StressMax
    /\ boss_alert_level = 0
    /\ InitLocals

\* --------------------------------------------------------------- actions
\* The return of execute_break_tool, lines 139-143, after check_hidden_combo
\* has returned event: the response is formatted from the state as it is now.
ReturnRenderedEarly(p, event, s, level) ==
    /\ hidden_event' = [hidden_event EXCEPT ![p] = event]
    /\ response' = [response EXCEPT ![p] = FormatResponse(stress_level, boss_alert_level)]
    /\ returned_during_delay' = [returned_during_delay EXCEPT ![p] = sleepers # <<>>]
    /\ pc' = [pc EXCEPT ![p] = "done"]
Return(p, event, s, level) ==
    /\ hidden_event' = [hidden_event EXCEPT ![p] = event]
    /\ response' = [response EXCEPT ![p] = FormatResponse(s, level)]
    /\ returned_during_delay' = [returned_during_delay EXCEPT ![p] = sleepers # <<>>]
    /\ pc' = [pc EXCEPT ![p] = "done"]

\* A caller invokes tool t: line 111 reads boss_alert_level and either
\* suspends in asyncio.sleep(20) or goes on to the await of line 116.
Start(p, t) ==
    /\ pc[p] \in {"idle", "done"}
    /\ tool_name' = [tool_name EXCEPT ![p] = t]
    /\ hidden_event' = [hidden_event EXCEPT ![p] = NoEvent]
    /\ response' = [response EXCEPT ![p] = NoResponse]
    /\ slept' = [slept EXCEPT ![p] = FALSE]
    /\ n_decrease' = [n_decrease EXCEPT ![p] = 0]
    /\ n_escalate' = [n_escalate EXCEPT ![p] = 0]
    /\ returned_during_delay' = [returned_during_delay EXCEPT ![p] = FALSE]
    /\ pc' = [pc EXCEPT ![p] = IF NeedsDelay(boss_alert_level) THEN "sleep" ELSE "reduce"]
    /\ sleepers' = IF NeedsDelay(boss_alert_level) THEN Append(sleepers, p) ELSE sleepers
    /\ UNCHANGED <<stress_level, boss_alert_level, recent_actions, combo_count, log>>

\* line 112: asyncio.sleep(20) is over.  The delays are equal, so the timers
\* of the event loop fire in the order in which the sleeps began.
WakeCancelled(p) ==
    /\ pc[p] = "sleep"
    /\ sleepers # <<>>
    /\ Head(sleepers) = p
    /\ sleepers' = Tail(sleepers)
    /\ slept' = [slept EXCEPT ![p] = TRUE]
    /\ pc' = [pc EXCEPT ![p] = "idle"]
    /\ UNCHANGED <<stress_level, boss_alert_level, recent_actions, combo_count,
                   tool_name, hidden_event, response, n_decrease, n_escalate, log,
                   returned_during_delay>>
Wake(p) ==
    /\ pc[p] = "sleep"
    /\ sleepers # <<>>
    /\ Head(sleepers) = p
    /\ sleepers' = Tail(sleepers)
    /\ slept' = [slept EXCEPT ![p] = TRUE]
    /\ pc' = [pc EXCEPT ![p] = "reduce"]
    /\ UNCHANGED <<stress_level, boss_alert_level, recent_actions, combo_count,
                   tool_name, hidden_event, response, n_decrease, n_escalate, log,
                   returned_during_delay>>

\* lines 115-116: the drawn amount is taken off the stress.
ReduceBehindDelay(p) ==
    /\ pc[p] = "reduce"
    /\ sleepers = <<>>
    /\ \E reduction_amount \in RandInt(StressReduction(tool_name[p])) :
           stress_level' = DecreaseStress(stress_level, reduction_amount)
    /\ n_decrease' = [n_decrease EXCEPT ![p] = @ + 1]
    /\ pc' = [pc EXCEPT ![p] = "escalate"]
    /\ UNCHANGED <<boss_alert_level, recent_actions, combo_count, tool_name,
                   hidden_event, response, slept, n_escalate, log, sleepers,
                   returned_during_delay>>
Reduce(p) ==
    /\ pc[p] = "reduce"
    /\ \E reduction_amount \in RandInt(StressReduction(tool_name[p])) :
           stress_level' = DecreaseStress(stress_level, reduction_amount)
    /\ n_decrease' = [n_decrease EXCEPT ![p] = @ + 1]
    /\ pc' = [pc EXCEPT ![p] = "escalate"]
    /\ UNCHANGED <<boss_alert_level, recent_actions, combo_count, tool_name,
                   hidden_event, response, slept, n_escalate, log, sleepers,
                   returned_during_delay>>

\* lines 119-138 and 66-93 up to the detector's first await: the alert attempt,
\* the history append, the combo update and the detector's choice of branch.
\* With no branch taken the detector returns None and the call returns.
Escalate(p) ==
    /\ pc[p] = "escalate"
    /\ \E level \in MaybeIncreaseBossAlert(boss_alert_level) :
         LET t == tool_name[p]
             actions == AppendRecent(recent_actions, t)
             counts == UpdateCombo(combo_count, t)
             event == Detect(t, ComboGet(counts, t), LastThree(actions))
         IN  /\ boss_alert_level' = level
             /\ recent_actions' = actions
             /\ combo_count' = counts
             /\ log' = Append(log, t)
             /\ IF event = NoEvent
                THEN Return(p, NoEvent, stress_level, level)
                ELSE /\ pc' = [pc EXCEPT ![p] =
                             CASE event = "overconsumption" -> "coffee_decrease"
                               [] event = "master"          -> "master_decrease"
                               [] event = "addiction"       -> "meme_escalate"
                               [] event = "awakening"       -> "awakening_decrease"]
                     /\ UNCHANGED <<hidden_event, response, returned_during_delay>>
    /\ n_escalate' = [n_escalate EXCEPT ![p] = @ + 1]
    /\ UNCHANGED <<stress_level, tool_name, slept, n_decrease, sleepers>>

\* line 71: decrease_stress(10).
CoffeeDecreaseSkipped(p) ==
    /\ pc[p] = "coffee_decrease"
    /\ n_decrease' = [n_decrease EXCEPT ![p] = @ + 1]
    /\ pc' = [pc EXCEPT ![p] = "coffee_escalate"]
    /\ UNCHANGED <<stress_level, boss_alert_level, recent_actions, combo_count,
                   tool_name, hidden_event, response, slept, n_escalate, log,
                   sleepers, returned_during_delay>>
CoffeeDecrease(p) ==
    /\ pc[p] = "coffee_decrease"
    /\ stress_level' = DecreaseStress(stress_level, CoffeePenalty)
    /\ n_decrease' = [n_decrease EXCEPT ![p] = @ + 1]
    /\ pc' = [pc EXCEPT ![p] = "coffee_escalate"]
    /\ UNCHANGED <<boss_alert_level, recent_actions, combo_count, tool_name,
                   hidden_event, response, slept, n_escalate, log, sleepers,
                   returned_during_delay>>

\* lines 72-74: the alert attempt, the combo reset, the return.
CoffeeEscalate(p) ==
    /\ pc[p] = "coffee_escalate"
    /\ \E level \in MaybeIncreaseBossAlert(boss_alert_level) :
           /\ boss_alert_level' = level
           /\ Return(p, "overconsumption", stress_level, level)
    /\ combo_count' = ResetCombo(combo_count, tool_name[p])
    /\ n_escalate' = [n_escalate EXCEPT ![p] = @ + 1]
    /\ UNCHANGED <<stress_level, recent_actions, tool_name, slept,
                   n_decrease, log, sleepers>>

\* lines 78-79: decrease_stress(50), the return.
MasterNoDecrease(p) ==
    /\ pc[p] = "master_decrease"
    /\ Return(p, "master", stress_level, boss_alert_level)
    /\ UNCHANGED <<stress_level, boss_alert_level, recent_actions, combo_count,
                   tool_name, slept, n_decrease, n_escalate, log, sleepers>>
MasterDecrease(p) ==
    /\ pc[p] = "master_decrease"
    /\ stress_level' = DecreaseStress(stress_level, MasterRelief)
    /\ Return(p, "master", stress_level', boss_alert_level)
    /\ n_decrease' = [n_decrease EXCEPT ![p] = @ + 1]
    /\ UNCHANGED <<boss_alert_level, recent_actions, combo_count, tool_name,
                   slept, n_escalate, log, sleepers>>

\* lines 83-85: the alert attempt, the combo reset, the return.
MemeEscalateFallsThrough(p) ==
    /\ pc[p] = "meme_escalate"
    /\ stress_level' = AwakenedStress(DecreaseStress(stress_level, AwakeningRelief))
    /\ \E level \in MaybeIncreaseBossAlert(boss_alert_level) :
           /\ boss_alert_level' = level
           /\ Return(p, "addiction", stress_level', level)
    /\ combo_count' = ResetCombo(combo_count, tool_name[p])
    /\ n_escalate' = [n_escalate EXCEPT ![p] = @ + 1]
    /\ UNCHANGED <<recent_actions, tool_name, slept,
                   n_decrease, log, sleepers>>
MemeEscalate(p) ==
    /\ pc[p] = "meme_escalate"
    /\ \E level \in MaybeIncreaseBossAlert(boss_alert_level) :
           /\ boss_alert_level' = level
           /\ Return(p, "addiction", stress_level, level)
    /\ combo_count' = ResetCombo(combo_count, tool_name[p])
    /\ n_escalate' = [n_escalate EXCEPT ![p] = @ + 1]
    /\ UNCHANGED <<stress_level, recent_actions, tool_name, slept,
                   n_decrease, log, sleepers>>

\* lines 89-91: decrease_stress(100), stress_level = 0, the return.
AwakeningDecrease(p) ==
    /\ pc[p] = "awakening_decrease"
    /\ stress_level' = AwakenedStress(DecreaseStress(stress_level, AwakeningRelief))
    /\ Return(p, "awakening", stress_level', boss_alert_level)
    /\ n_decrease' = [n_decrease EXCEPT ![p] = @ + 1]
    /\ UNCHANGED <<boss_alert_level, recent_actions, combo_count, tool_name,
                   slept, n_escalate, log, sleepers>>

\* Every block of an invocation after its start.
Step(p) ==
    \/ Wake(p)
    \/ Reduce(p)
    \/ Escalate(p)
    \/ CoffeeDecrease(p)
    \/ CoffeeEscalate(p)
    \/ MasterDecrease(p)
    \/ MemeEscalate(p)
    \/ AwakeningDecrease(p)

\* ------------------------------------------------------- specifications
\* One caller that awaits each call before the next, so invocations run one
\* at a time.  Its first MaxFree invocations are of any tool; after them it
\* goes on invoking the tool it invoked last when that is a tool with a
\* repetition trigger, which builds the long streaks.
Call == \E t \in BreakTools : Started < MaxFree /\ Start(1, t)

Repeat ==
    /\ MaxFree <= Started
    /\ Started < MaxCalls
    /\ log # <<>>
    /\ log[Len(log)] \in StreakTools
    /\ Start(1, log[Len(log)])

Next ==
    \/ Call
    \/ Repeat
    \/ Step(1)

Spec == Init /\ [][Next]_vars

\* Several callers at once, each awaiting its own call: the invocations
\* interleave at their awaits.  The behaviours start from server states that
\* the single caller above reaches, each one call short of a trigger.
\* n invocations of t in a row, as recent_actions holds them.
Run(t, n) == [i \in 1..n |-> t]

WarmStates ==
    {[recent |-> Run("coffee_mission", CoffeeCombo - 1),
      combo |-> ("coffee_mission" :> CoffeeCombo - 1),
      stress |-> 0, alert |-> DelayThreshold],
     [recent |-> Run("show_meme", MemeCombo - 1),
      combo |-> ("show_meme" :> MemeCombo - 1),
      stress |-> 0, alert |-> DelayThreshold - 1],
     [recent |-> <<"deep_thinking", "bathroom_break", "email_organizing">>,
      combo |-> ("deep_thinking" :> 0) @@ ("bathroom_break" :> 0)
                    @@ ("email_organizing" :> 1),
      stress |-> 0, alert |-> 3],
     [recent |-> <<"watch_netflix", "deep_thinking", "coffee_mission">>,
      combo |-> ("watch_netflix" :> 0) @@ ("deep_thinking" :> 0)
                    @@ ("coffee_mission" :> 1),
      stress |-> 0, alert |-> 3]}

\* The tools the concurrent callers invoke: those that complete a trigger.
ConcTools == {"coffee_mission", "show_meme", "watch_netflix", "take_a_break"}

ConcInit ==
    /\ \E w \in WarmStates :
           /\ stress_level = w.stress
           /\ boss_alert_level = w.alert
           /\ recent_actions = w.recent
           /\ combo_count = w.combo
    /\ pc = [p \in Procs |-> "idle"]
    /\ tool_name = [p \in Procs |-> NoTool]
    /\ hidden_event = [p \in Procs |-> NoEvent]
    /\ response = [p \in Procs |-> NoResponse]
    /\ slept = [p \in Procs |-> FALSE]
    /\ n_decrease = [p \in Procs |-> 0]
    /\ n_escalate = [p \in Procs |-> 0]
    /\ log = <<>>
    /\ sleepers = <<>>
    /\ returned_during_delay = [p \in Procs |-> FALSE]

\* Each slot hosts one invocation: NumProcs calls are in flight at most.
ConcCall(p) == \E t \in ConcTools : pc[p] = "idle" /\ Start(p, t)

ConcNext == \E p \in Procs : ConcCall(p) \/ Step(p)

SpecConc == ConcInit /\ [][ConcNext]_vars

\* The event loop runs every coroutine that is ready: an invocation that can
\* take its next block eventually takes it.
SpecConcFair == SpecConc /\ \A p \in Procs : WF_vars(Step(p))

\* ------------------------------------------------------------- properties
\* The entries of a sequence.
Range(l) == {l[i] : i \in DOMAIN l}

\* The last n entries of a sequence of at least n entries.
LastN(l, n) == SubSeq(l, Len(l) - n + 1, Len(l))

\* Length of the run of equal entries that ends a sequence: the number of
\* consecutive invocations of the tool invoked last.
TrailingRun(l) ==
    Cardinality({i \in DOMAIN l : \A j \in i..Len(l) : l[j] = l[Len(l)]})

\* Invocation p has returned and invoked tool t.
Returned(p, t) == pc[p] = "done" /\ tool_name[p] = t

\* C1: in every reachable state, with or without a bonus, the awakening
\* branch's direct assignment included, 0 <= stress_level <= 100.
C1_StressInRange == 0 <= stress_level /\ stress_level <= StressMax

\* The awakening branch has assigned the stress directly.
C1_Witness ==
    /\ pc[1] = "done"
    /\ hidden_event[1] = "awakening"
    /\ stress_level = 0

\* C2: after n invocations recent_actions holds, in invocation order, the
\* identifiers of the last min(n, 10) invocations.
C2_HistoryIsLastTen ==
    /\ Len(recent_actions) = Min(Len(log), HistoryCap)
    /\ recent_actions = LastN(log, Min(Len(log), HistoryCap))

\* More than ten invocations, the evicted first entry differing from the
\* entry now oldest.
C2_Witness ==
    /\ Len(log) > HistoryCap
    /\ Len(recent_actions) = HistoryCap
    /\ log[1] # recent_actions[1]

\* C3 as stated: after 11 invocations the identifier of the first one is
\* absent from recent_actions, whatever the 11 identifiers.
C3_FirstIdentifierAbsent ==
    Len(log) = HistoryCap + 1 => log[1] \notin Range(recent_actions)

\* C3 amended: after 11 invocations recent_actions is the 2nd to 11th
\* identifiers, the entry of the first invocation evicted; its identifier is
\* absent exactly when none of the ten later invocations used it.
C3_FirstEntryEvicted ==
    Len(log) = HistoryCap + 1 =>
        /\ recent_actions = SubSeq(log, 2, HistoryCap + 1)
        /\ log[1] \notin Range(recent_actions)
               <=> \A i \in 2..(HistoryCap + 1) : log[i] # log[1]

\* Eleven invocations, the first identifier not used again: it is gone.
C3_Witness ==
    /\ Len(log) = HistoryCap + 1
    /\ pc[1] = "done"
    /\ log[1] \notin Range(recent_actions)

\* C4: in a run of consecutive coffee_mission invocations that starts with
\* the streak at 0, the overconsumption bonus is returned by the 7th and the
\* 14th invocation and by no other of the first 14, and the streak is 0
\* after the 7th.
C4_CoffeeEverySeventh ==
    Returned(1, "coffee_mission") =>
        LET k == TrailingRun(log)
            bonus == hidden_event[1] = "overconsumption"
        IN  /\ k \in 1..(CoffeeCombo - 1) => ~bonus
            /\ k = CoffeeCombo => bonus /\ ComboGet(combo_count, "coffee_mission") = 0
            /\ k \in (CoffeeCombo + 1)..(2 * CoffeeCombo - 1) => ~bonus
            /\ k = 2 * CoffeeCombo => bonus

\* The 14th consecutive coffee_mission has returned the bonus.
C4_Witness ==
    /\ Returned(1, "coffee_mission")
    /\ TrailingRun(log) = 2 * CoffeeCombo
    /\ hidden_event[1] = "overconsumption"

\* C5: an invocation returns the master-routine bonus exactly when it is
\* watch_netflix and the two invocations before it were bathroom_break then
\* email_organizing.
C5_MasterIffOrderedTriple ==
    pc[1] = "done" =>
        (hidden_event[1] = "master"
            <=> /\ Len(log) >= 3
                /\ LastN(log, 3) = <<"bathroom_break", "email_organizing", "watch_netflix">>)

\* The invocation completing the triple has returned the bonus.
C5_Witness ==
    /\ pc[1] = "done"
    /\ tool_name[1] = "watch_netflix"
    /\ hidden_event[1] = "master"

\* C6: in a run of consecutive show_meme invocations that starts with the
\* streak at 0, the addiction-warning bonus is returned by the 5th and by
\* none of the first 4, and the streak is 0 after the 5th.
C6_MemeFifth ==
    Returned(1, "show_meme") =>
        LET k == TrailingRun(log)
            bonus == hidden_event[1] = "addiction"
        IN  /\ k \in 1..(MemeCombo - 1) => ~bonus
            /\ k = MemeCombo => bonus /\ ComboGet(combo_count, "show_meme") = 0

\* The 5th consecutive show_meme has returned the bonus.
C6_Witness ==
    /\ Returned(1, "show_meme")
    /\ TrailingRun(log) = MemeCombo
    /\ hidden_event[1] = "addiction"

\* C7: once deep_thinking, coffee_mission, take_a_break have been invoked
\* consecutively in that order, the third has returned the awakening bonus
\* and the stress is exactly 0.
C7_AwakeningZeroesStress ==
    (/\ pc[1] = "done"
     /\ Len(log) >= 3
     /\ LastN(log, 3) = <<"deep_thinking", "coffee_mission", "take_a_break">>)
        => stress_level = 0 /\ hidden_event[1] = "awakening"

\* The triple has been invoked and its third invocation has returned.
C7_Witness ==
    /\ Returned(1, "take_a_break")
    /\ Len(log) >= 3
    /\ LastN(log, 3) = <<"deep_thinking", "coffee_mission", "take_a_break">>
    /\ response[1].stress = 0

\* C8: every streak counter of an identifier other than the one invoked last
\* is 0, so at most one counter is non-zero.
C8_OneStreak ==
    /\ log = <<>> => DOMAIN combo_count = {}
    /\ log # <<>> =>
           \A k \in DOMAIN combo_count : k # log[Len(log)] => combo_count[k] = 0
    /\ Cardinality({k \in DOMAIN combo_count : combo_count[k] # 0}) <= 1

\* A tool invoked after a different one: the earlier tool's counter, which
\* was non-zero, is 0 again.
C8_Witness ==
    /\ Len(log) >= 2
    /\ log[Len(log) - 1] # log[Len(log)]
    /\ ComboGet(combo_count, log[Len(log) - 1]) = 0
    /\ ComboGet(combo_count, log[Len(log)]) = 1

\* The ServerState fields are left as they are by a step.
SharedUnchanged ==
    UNCHANGED <<stress_level, boss_alert_level, recent_actions, combo_count>>

\* C9: an invocation goes into the 20-unit suspension exactly when
\* boss_alert_level >= 5 as it starts; the suspension is entered at the start
\* only, never later in the invocation whatever the level becomes, and it
\* ends before the invocation has changed any state.
C9_DelayIffAlertAtStart ==
    [][\A p \in Procs :
          /\ (pc[p] \in {"idle", "done"} /\ pc'[p] \notin {"idle", "done"})
                 => (pc'[p] = "sleep" <=> boss_alert_level >= DelayThreshold)
          /\ (pc[p] # "sleep" /\ pc'[p] = "sleep") => pc[p] \in {"idle", "done"}
          /\ pc[p] = "sleep" =>
                 /\ n_decrease[p] = 0 /\ n_escalate[p] = 0
                 /\ pc'[p] \in {"sleep", "reduce"}
                 /\ pc'[p] = "reduce" => SharedUnchanged /\ slept'[p]
          /\ (slept'[p] /\ ~slept[p]) => pc[p] = "sleep"
      ]_vars

\* An invocation that started below the threshold has returned without the
\* suspension although the level reached the threshold while it ran.
C9_Witness ==
    /\ pc[1] = "done"
    /\ ~slept[1]
    /\ boss_alert_level >= DelayThreshold

\* An invocation that went through the suspension has returned.
C9_SleptAndReturned == pc[1] = "done" /\ slept[1]

\* C10 as stated: every invocation makes exactly one decrease_stress call
\* and exactly one maybe_increase_boss_alert call, the detector's included.
C10_OneReductionOneAttempt ==
    \A p \in Procs : pc[p] = "done" => n_decrease[p] = 1 /\ n_escalate[p] = 1

\* The calls the detector adds to the one of lines 116 and 119.
ExtraDecrease(event) == IF event \in {"overconsumption", "master", "awakening"} THEN 1 ELSE 0
ExtraEscalate(event) == IF event \in {"overconsumption", "addiction"} THEN 1 ELSE 0

\* C10 amended: execute_break_tool itself makes exactly one decrease_stress
\* call and one maybe_increase_boss_alert call; the detector adds one
\* decrease_stress call with the overconsumption, master-routine and
\* awakening bonuses and one maybe_increase_boss_alert call with the
\* overconsumption and addiction-warning bonuses, so the totals are one and
\* one exactly when no bonus fires.
C10_OnePlusBonusCalls ==
    \A p \in Procs :
        /\ pc[p] \in {"coffee_decrease", "master_decrease", "meme_escalate",
                      "awakening_decrease"}
               => n_decrease[p] = 1 /\ n_escalate[p] = 1
        /\ pc[p] = "done" =>
               /\ n_decrease[p] = 1 + ExtraDecrease(hidden_event[p])
               /\ n_escalate[p] = 1 + ExtraEscalate(hidden_event[p])

\* The overconsumption bonus has fired: two calls of each primitive.
C10_Witness ==
    /\ pc[1] = "done"
    /\ hidden_event[1] = "overconsumption"
    /\ n_decrease[1] = 2
    /\ n_escalate[1] = 2

\* C11 as stated: while an invocation is suspended in the delay, another
\* invocation can start, run its whole lifecycle and return before the
\* suspended one resumes: whatever the other invocation has reached, its
\* next block can run.
C11_OthersRunWholeLifecycle ==
    \A p, q \in Procs :
        (pc[p] = "sleep" /\ q # p /\ pc[q] \notin {"idle", "done"})
            => ENABLED Step(q)

\* C11 amended: the delay holds no exclusive access.  While an invocation is
\* suspended, every other invocation past its own delay can run its next
\* block and return, and a new invocation can start; but boss_alert_level is
\* still >= 5, so an invocation that starts then is delayed too and resumes
\* only after the one suspended earlier.
C11_DelayHoldsNoLock ==
    \A p \in Procs :
        pc[p] = "sleep" =>
            /\ boss_alert_level >= DelayThreshold
            /\ \A q \in Procs \ {p} :
                   /\ pc[q] \notin {"idle", "done", "sleep"} => ENABLED Step(q)
                   /\ pc[q] = "idle" => ENABLED ConcCall(q)
                   /\ pc[q] = "sleep" => (ENABLED Step(q) <=> Head(sleepers) = q)

\* An invocation has returned while another one was, and still is, in the delay.
C11_Witness ==
    /\ pc[1] = "sleep"
    /\ pc[2] = "done"
    /\ returned_during_delay[2]

\* Invocation p is within steps 2-7: its stress reduction has been applied
\* and it has not returned.
Inside(p) ==
    pc[p] \in {"escalate", "coffee_decrease", "coffee_escalate", "master_decrease",
               "meme_escalate", "awakening_decrease"}

\* C12 as stated: steps 2-7 of concurrent invocations never interleave: no
\* two invocations are within steps 2-7 at the same time.
C12_Serialized ==
    \A p, q \in Procs : (p # q /\ Inside(p)) => ~Inside(q)

\* C13: every invocation that has started eventually returns a response; an
\* invocation in the delay is not cancelled or retried, it has applied no
\* mutation yet and its next step is the stress reduction.
C13_EveryInvocationReturns ==
    /\ \A p \in Procs : (pc[p] \notin {"idle", "done"}) ~> (pc[p] = "done")
    /\ [][\A p \in Procs :
              pc[p] = "sleep" =>
                  /\ n_decrease[p] = 0 /\ n_escalate[p] = 0
                  /\ pc'[p] \in {"sleep", "reduce"}]_vars

\* Every invocation slot has been delayed and has returned.
C13_Witness == \A p \in Procs : pc[p] = "done" /\ slept[p]

\* The four trigger conditions of the detector, read off the shared state
\* for the tool of invocation p.
OverCond(p) ==
    tool_name[p] = "coffee_mission" /\ ComboGet(combo_count, "coffee_mission") >= 7
MasterCond ==
    LastThree(recent_actions) = <<"bathroom_break", "email_organizing", "watch_netflix">>
MemeCond(p) ==
    tool_name[p] = "show_meme" /\ ComboGet(combo_count, "show_meme") >= 5
AwakeCond ==
    LastThree(recent_actions) = <<"deep_thinking", "coffee_mission", "take_a_break">>

\* The detector has run for invocation p and the shared state is still the
\* one it read: p is in a bonus branch, or has returned with no bonus.
Detected(p) ==
    \/ pc[p] \in {"coffee_decrease", "coffee_escalate", "master_decrease",
                  "meme_escalate", "awakening_decrease"}
    \/ pc[p] = "done" /\ hidden_event[p] = NoEvent

\* The shared-state effects of the step invocation p takes out of a bonus
\* branch: those of that branch and no other.
BranchEffects(p) ==
    /\ pc[p] = "coffee_decrease" =>
           /\ pc'[p] = "coffee_escalate"
           /\ stress_level' = Max(0, stress_level - CoffeePenalty)
           /\ UNCHANGED <<boss_alert_level, recent_actions, combo_count>>
    /\ pc[p] = "coffee_escalate" =>
           /\ hidden_event'[p] = "overconsumption"
           /\ boss_alert_level' \in {boss_alert_level, boss_alert_level + 1}
           /\ combo_count' = [combo_count EXCEPT !["coffee_mission"] = 0]
           /\ UNCHANGED <<stress_level, recent_actions>>
    /\ pc[p] = "master_decrease" =>
           /\ hidden_event'[p] = "master"
           /\ stress_level' = Max(0, stress_level - MasterRelief)
           /\ UNCHANGED <<boss_alert_level, recent_actions, combo_count>>
    /\ pc[p] = "meme_escalate" =>
           /\ hidden_event'[p] = "addiction"
           /\ boss_alert_level' \in {boss_alert_level, boss_alert_level + 1}
           /\ combo_count' = [combo_count EXCEPT !["show_meme"] = 0]
           /\ UNCHANGED <<stress_level, recent_actions>>
    /\ pc[p] = "awakening_decrease" =>
           /\ hidden_event'[p] = "awakening"
           /\ stress_level' = 0
           /\ UNCHANGED <<boss_alert_level, recent_actions, combo_count>>

\* C14: the detector takes the first trigger, in the order overconsumption,
\* master routine, addiction warning, awakening, whose condition is true; an
\* invocation returns at most one bonus event, and the step out of a bonus
\* branch applies the effects of that branch only and then returns.
C14_FirstTrueWins ==
    /\ [](\A p \in Procs :
              /\ pc[p] \in {"coffee_decrease", "coffee_escalate"} => OverCond(p)
              /\ pc[p] = "master_decrease" => ~OverCond(p) /\ MasterCond
              /\ pc[p] = "meme_escalate" =>
                     ~OverCond(p) /\ ~MasterCond /\ MemeCond(p)
              /\ pc[p] = "awakening_decrease" =>
                     ~OverCond(p) /\ ~MasterCond /\ ~MemeCond(p) /\ AwakeCond
              /\ (pc[p] = "done" /\ hidden_event[p] = NoEvent) =>
                     ~OverCond(p) /\ ~MasterCond /\ ~MemeCond(p) /\ ~AwakeCond)
    /\ [][\A p \in Procs :
              pc'[p] # pc[p] =>
                  /\ BranchEffects(p)
                  /\ pc[p] \in {"coffee_escalate", "master_decrease", "meme_escalate",
                                "awakening_decrease"} => pc'[p] = "done"]_vars

\* The addiction warning has been returned and the stress, which only the
\* lower-priority awakening branch zeroes, is still positive.
C14_Witness ==
    /\ pc[1] = "done"
    /\ hidden_event[1] = "addiction"
    /\ stress_level > 0

\* The stress after the base reduction of tool t from stress s, for some
\* drawn amount in the range of t.
BaseReduced(s, t, after) ==
    \E r \in StressReduction(t)[1]..StressReduction(t)[2] : after = Max(0, s - r)

\* C15: bonus effects add to the base lifecycle.  In the sequential runs
\* every step is a step of the one invocation in flight; its base reduction
\* takes stress s to max(0, s - r) with r in the range of its tool (20..40
\* for watch_netflix, 10..30 for coffee_mission), the alert attempt and the
\* bookkeeping leave the stress alone, the master-routine branch then takes
\* it to max(0, . - 50) and the overconsumption branch to max(0, . - 10)
\* followed by a second alert attempt.
C15_BonusOnTopOfBase ==
    [][/\ pc'[1] # pc[1]
       /\ pc[1] = "reduce" =>
              /\ BaseReduced(stress_level, tool_name[1], stress_level')
              /\ n_decrease'[1] = 1 /\ n_escalate'[1] = 0
       /\ pc[1] = "escalate" =>
              /\ stress_level' = stress_level
              /\ n_decrease'[1] = 1 /\ n_escalate'[1] = 1
              /\ pc'[1] = "master_decrease" => tool_name[1] = "watch_netflix"
              /\ pc'[1] = "coffee_decrease" => tool_name[1] = "coffee_mission"
       /\ pc[1] = "master_decrease" =>
              /\ stress_level' = Max(0, stress_level - 50)
              /\ pc'[1] = "done"
              /\ n_decrease'[1] = 2 /\ n_escalate'[1] = 1
       /\ pc[1] = "coffee_decrease" =>
              /\ stress_level' = Max(0, stress_level - 10)
              /\ pc'[1] = "coffee_escalate"
              /\ n_decrease'[1] = 2 /\ n_escalate'[1] = 1
       /\ pc[1] = "coffee_escalate" =>
              /\ stress_level' = stress_level
              /\ pc'[1] = "done"
              /\ n_decrease'[1] = 2 /\ n_escalate'[1] = 2]_vars

\* An overconsumption invocation has returned after two reductions and two
\* alert attempts, with stress left over: neither max(0, .) was needed.
C15_Witness ==
    /\ pc[1] = "done"
    /\ hidden_event[1] = "overconsumption"
    /\ n_decrease[1] = 2
    /\ n_escalate[1] = 2
    /\ stress_level > 0

\* C16 as stated: after every invocation of a tool its streak counter is
\* the number of consecutive invocations of that tool since another tool
\* was last invoked, or since initialization.
C16_StreakIsTrailingRun ==
    \A a \in BreakTools :
        Returned(1, a) => ComboGet(combo_count, a) = TrailingRun(log)

\* C16 amended: the counter counts the consecutive invocations of the tool
\* since another tool was last invoked or since its own repetition bonus
\* last reset it: the run length modulo 7 for coffee_mission, modulo 5 for
\* show_meme, the run length itself for every other tool.
C16_StreakSinceOtherOrBonus ==
    \A a \in BreakTools :
        Returned(1, a) =>
            ComboGet(combo_count, a) =
                CASE a = "coffee_mission" -> TrailingRun(log) % 7
                  [] a = "show_meme"      -> TrailingRun(log) % 5
                  [] OTHER                -> TrailingRun(log)

\* The 8th consecutive coffee_mission has returned: the counter, reset by
\* the bonus of the 7th, is 1.
C16_Witness ==
    /\ Returned(1, "coffee_mission")
    /\ TrailingRun(log) = 8
    /\ ComboGet(combo_count, "coffee_mission") = 1

\* C17: with invocations interleaved at every await and no lock, at most
\* one streak counter is non-zero in every reachable state: every counter
\* of a tool other than the one appended last to recent_actions is 0.
C17_OneStreakInterleaved ==
    /\ Cardinality({k \in DOMAIN combo_count : combo_count[k] # 0}) <= 1
    /\ recent_actions # <<>> =>
           \A k \in DOMAIN combo_count :
               k # recent_actions[Len(recent_actions)] => combo_count[k] = 0

\* A coffee_mission invocation is suspended in its bonus branch, its reset
\* still to be written, after another invocation of a different tool has
\* done its bookkeeping and zeroed the coffee_mission counter.
C17_Witness ==
    /\ pc[1] = "coffee_decrease"
    /\ pc[2] \notin {"idle", "sleep", "reduce", "escalate"}
    /\ tool_name[2] = "show_meme"
    /\ ComboGet(combo_count, "coffee_mission") = 0
    /\ ComboGet(combo_count, "show_meme") = 1

\* The coffee_mission invocations that have updated the streak.
CoffeeUpdates == Cardinality({i \in DOMAIN log : log[i] = "coffee_mission"})

\* C18 as stated: with invocations interleaved at the awaits, when two
\* coffee_mission invocations have both returned the overconsumption bonus,
\* at least 7 coffee_mission invocations updated the streak after the first
\* firing, the second firing one included: at least 8 have updated it in all.
C18_BonusOncePerSeven ==
    \A p, q \in Procs :
        (/\ p # q
         /\ pc[p] = "done" /\ hidden_event[p] = "overconsumption"
         /\ pc[q] = "done" /\ hidden_event[q] = "overconsumption")
            => CoffeeUpdates >= CoffeeCombo + 1

\* The trigger conditions, of the four, that are true for invocation p.
TrueConds(p) ==
    {c \in {"overconsumption", "master", "addiction", "awakening"} :
        \/ c = "overconsumption" /\ OverCond(p)
        \/ c = "master" /\ MasterCond
        \/ c = "addiction" /\ MemeCond(p)
        \/ c = "awakening" /\ AwakeCond}

\* C19: with invocations one at a time, in the state the detector reads at
\* most one of the four trigger conditions is true: the last history entry
\* is the current tool, the repetition triggers need it to be coffee_mission
\* or show_meme and the sequence triggers watch_netflix or take_a_break.  So
\* the branch taken is the one whose condition is true, whatever the order
\* in which the conditions are tried.
C19_TriggersExclusive ==
    Detected(1) =>
        /\ Cardinality(TrueConds(1)) <= 1
        /\ recent_actions[Len(recent_actions)] = tool_name[1]
        /\ (OverCond(1) \/ MemeCond(1)) =>
               tool_name[1] \in {"coffee_mission", "show_meme"}
        /\ (MasterCond \/ AwakeCond) =>
               tool_name[1] \in {"watch_netflix", "take_a_break"}
        /\ pc[1] \in {"coffee_decrease", "coffee_escalate"}
               <=> TrueConds(1) = {"overconsumption"}
        /\ pc[1] = "master_decrease" <=> TrueConds(1) = {"master"}
        /\ pc[1] = "meme_escalate" <=> TrueConds(1) = {"addiction"}
        /\ pc[1] = "awakening_decrease" <=> TrueConds(1) = {"awakening"}
        /\ pc[1] = "done" <=> TrueConds(1) = {}

\* The detector has taken the branch of lowest priority, its condition the
\* only one that is true.
C19_Witness ==
    /\ pc[1] = "awakening_decrease"
    /\ TrueConds(1) = {"awakening"}

\* C20: with invocations one at a time, the stress and alert rendered in
\* the returned response are those of the shared state at the end of the
\* invocation, bonus effects included: an awakening response renders
\* stress 0.
C20_ResponseRendersFinalState ==
    pc[1] = "done" =>
        /\ response[1] = [stress |-> stress_level, boss |-> boss_alert_level]
        /\ hidden_event[1] = "awakening" => response[1].stress = 0

\* A master-routine invocation has returned a response that renders the
\* stress left after both reductions.
C20_Witness ==
    /\ pc[1] = "done"
    /\ hidden_event[1] = "master"
    /\ n_decrease[1] = 2
    /\ response[1].stress = stress_level
    /\ stress_level > 0

=============================================================================
